---------------------------- MODULE Spec2Model ----------------------------
(***************************************************************************)
(* A model of the network analyzer: NetworkAnalyzer (network_analysis.py)  *)
(* and the /analyze HTTP handler that drives it (app.py).                  *)
(*                                                                         *)
(* Strings whose characters the code inspects (IP addresses, TCP flags)    *)
(* are sequences of one-character strings.  Timestamps are integers in     *)
(* ticks of 1/TicksPerSecond second.  A percentage is the exact fraction   *)
(* [num, den] the code divides.  None for a list-valued attribute is the   *)
(* empty sequence.                                                         *)
(***************************************************************************)
EXTENDS Integers, Sequences, FiniteSets, TLC

VARIABLES
    request,              \* the HTTP request being served ("none": the class is called directly)
    pcap,                 \* the packets the capture file holds
    override_file,        \* protocol_map.json: [present, obj]
    disk,                 \* which write the file system refuses, if any
    ties,                 \* which of two equal counts this build's argsort puts first
    pool,                 \* the worker pool of extract_packet_data and its imap iterator
    csv,                  \* the rows of the CSV that save_results wrote
    pc,                   \* the caller's position
    files,                \* the temporary files that exist
    written,              \* history: the files ever written for this request
    status,               \* HTTP status of the response (0: none)
    raised,               \* the exception propagating to the caller
    packets,              \* self.packets
    df,                   \* self.df
    df_security,          \* self.df_security
    protocol_map,         \* self.protocol_map
    port_scan_threshold,  \* self.port_scan_threshold
    analysis,             \* what analyze_packet_data returned
    potential_scanners,   \* what detect_port_scanning returned
    ddos_targets          \* what detect_ddos returned

vars == <<request, pcap, override_file, disk, ties, pool, csv, pc, files, written, status, raised,
          packets, df, df_security, protocol_map, port_scan_threshold, analysis,
          potential_scanners, ddos_targets>>

-----------------------------------------------------------------------------
(* Characters and strings *)

Digit == {"0", "1", "2", "3", "4", "5", "6", "7", "8", "9"}

DigitVal(c) ==
    CASE c = "0" -> 0 [] c = "1" -> 1 [] c = "2" -> 2 [] c = "3" -> 3
      [] c = "4" -> 4 [] c = "5" -> 5 [] c = "6" -> 6 [] c = "7" -> 7
      [] c = "8" -> 8 [] c = "9" -> 9

\* The code point of a character, for the order Python compares strings by.
Ord(c) ==
    CASE c = "\n" -> 10 [] c = " " -> 32 [] c = "." -> 46
      [] c \in Digit -> 48 + DigitVal(c)
      [] c = "A" -> 65 [] c = "F" -> 70 [] c = "P" -> 80 [] c = "S" -> 83
      [] c = "a" -> 97 [] c = "b" -> 98 [] c = "c" -> 99 [] c = "d" -> 100

RECURSIVE StrLess(_, _)
StrLess(s, t) ==
    IF t = <<>> THEN FALSE
    ELSE IF s = <<>> THEN TRUE
    ELSE IF Head(s) = Head(t) THEN StrLess(Tail(s), Tail(t))
    ELSE Ord(Head(s)) < Ord(Head(t))

startswith(s, prefix) ==
    /\ Len(s) >= Len(prefix)
    /\ SubSeq(s, 1, Len(prefix)) = prefix

contains(s, c) == \E i \in DOMAIN s : s[i] = c

-----------------------------------------------------------------------------
(* is_valid_ip: the pattern                                                *)
(*   ^((25[0-5]|2[0-4][0-9]|[01]?[0-9][0-9]?)\.){3}                          *)
(*     (25[0-5]|2[0-4][0-9]|[01]?[0-9][0-9]?)$                               *)
(* matched from the start of the string, as the set of positions each part *)
(* of the pattern can end at.                                              *)

At(s, i, C) == i \in DOMAIN s /\ s[i] \in C

\* Positions after one octet alternative matched at position i.
OctetEnds(s, i) ==
    {j \in {i + 3} : At(s, i, {"2"}) /\ At(s, i + 1, {"5"})
                     /\ At(s, i + 2, {"0", "1", "2", "3", "4", "5"})}
    \cup {j \in {i + 3} : At(s, i, {"2"}) /\ At(s, i + 1, {"0", "1", "2", "3", "4"})
                          /\ At(s, i + 2, Digit)}
    \cup {j \in {i + 3} : At(s, i, {"0", "1"}) /\ At(s, i + 1, Digit) /\ At(s, i + 2, Digit)}
    \cup {j \in {i + 2} : At(s, i, Digit) /\ At(s, i + 1, Digit)}
    \cup {j \in {i + 1} : At(s, i, Digit)}

\* Positions after "octet \." matched from any position of P.
OctetDotEnds(s, P) ==
    {j + 1 : j \in {k \in UNION {OctetEnds(s, i) : i \in P} : At(s, k, {"."})}}

\* "$" holds at the end of the string and before a final newline.
AtDollar(s, j) == j = Len(s) + 1 \/ (j = Len(s) /\ s[j] = "\n")

re_match(s) ==
    LET P3 == OctetDotEnds(s, OctetDotEnds(s, OctetDotEnds(s, {1})))
    IN  \E j \in UNION {OctetEnds(s, i) : i \in P3} : AtDollar(s, j)

\* is_valid_ip without its startswith('0.') test.
is_valid_ip_without_prefix_test(ip) == re_match(ip)

is_valid_ip(ip) == re_match(ip) /\ ~startswith(ip, <<"0", ".">>)

-----------------------------------------------------------------------------
(* Packets and the records extracted from them *)

None == <<>>

process_packet(packet) ==
    IF packet.ip
    THEN IF is_valid_ip(packet.src) /\ is_valid_ip(packet.dst)
         THEN <<[src_ip |-> packet.src, dst_ip |-> packet.dst,
                 protocol |-> packet.proto, size |-> packet.len,
                 time |-> packet.time,
                 src_port |-> IF packet.tcp THEN packet.sport ELSE 0,
                 dst_port |-> IF packet.tcp THEN packet.dport ELSE 0,
                 tcp_flags |-> IF packet.tcp THEN packet.flags ELSE <<>>]>>
         ELSE None
    ELSE None

\* The loop body with `if TCP in packet` for `if IP in packet`: only TCP
\* packets are taken for the security records.
security_record_of_tcp(packet) ==
    IF packet.ip /\ packet.tcp
    THEN IF is_valid_ip(packet.src) /\ is_valid_ip(packet.dst)
         THEN <<[src_ip |-> packet.src, dst_ip |-> packet.dst,
                 protocol |-> packet.proto,
                 dst_port |-> packet.dport,
                 tcp_flags |-> packet.flags,
                 time |-> packet.time]>>
         ELSE <<>>
    ELSE <<>>

\* The body of extract_security_data's loop: what one packet appends.
security_record(packet) ==
    IF packet.ip
    THEN IF is_valid_ip(packet.src) /\ is_valid_ip(packet.dst)
         THEN <<[src_ip |-> packet.src, dst_ip |-> packet.dst,
                 protocol |-> packet.proto,
                 dst_port |-> IF packet.tcp THEN packet.dport ELSE 0,
                 tcp_flags |-> IF packet.tcp THEN packet.flags ELSE <<>>,
                 time |-> packet.time]>>
         ELSE <<>>
    ELSE <<>>

\* The records of a list of per-packet results, in order, without the Nones.
RECURSIVE NotNone(_)
NotNone(results) ==
    IF results = <<>> THEN <<>> ELSE Head(results) \o NotNone(Tail(results))

\* No pool: none has been created yet, or its `with` block has been left.
\* `arrived` is history: the task indexes in the order their results came back.
NoPool ==
    [taskqueue |-> <<>>, working |-> {}, unsorted |-> {}, items |-> <<>>,
     arrived |-> <<>>]

-----------------------------------------------------------------------------
(* Exceptions and how a call ends *)

NoException == [type |-> "None", code |-> 0, site |-> ""]

\* sys.exit(1) at `site`; the site is history, not part of what is raised.
SystemExit(site) == [type |-> "SystemExit", code |-> 1, site |-> site]

Exception(type, site) == [type |-> type, code |-> 0, site |-> site]

\* What the caller of the raising method holds: the exception's type and code.
Observed(e) == <<e.type, e.code>>

\* Unwinding through a handler that removes its files after the try statement
\* and has no `finally`: SystemExit leaves the handler at once.
UnwindWithoutFinally(e) ==
    IF request = "none" THEN "done"
    ELSE IF e.type = "SystemExit" THEN "finished" ELSE "handler_except"

\* Where control goes when e propagates: inside the handler, `except Exception`
\* catches everything but SystemExit, which passes straight to `finally`.
Unwind(e) ==
    IF request = "none" THEN "done"
    ELSE IF e.type = "SystemExit" THEN "handler_finally" ELSE "handler_except"

Raise(e) == raised' = e /\ pc' = Unwind(e)

Return(next) == raised' = raised /\ pc' \in next

-----------------------------------------------------------------------------
(* NetworkAnalyzer: feature extraction *)

read_pcap(next) ==
    /\ pc = "read_pcap"
    /\ IF "pcap" \notin files
       THEN packets' = packets /\ Raise(SystemExit("validate_file"))
       ELSE /\ packets' = pcap
            /\ IF packets' = <<>> THEN Raise(SystemExit("read_pcap")) ELSE Return(next)
    /\ UNCHANGED <<request, pcap, override_file, disk, ties, pool, csv, files, written, status, df,
                   df_security, protocol_map, port_scan_threshold, analysis,
                   potential_scanners, ddos_targets>>

\* extract_packet_data without the test of self.df.empty.
extract_packet_data_without_exit(next) ==
    /\ pc = "extract_packet_data"
    /\ df' = NotNone([i \in DOMAIN packets |-> process_packet(packets[i])])
    /\ Return(next)
    /\ UNCHANGED <<request, pcap, override_file, disk, ties, pool, csv, files, written,
                   status, packets, df_security, protocol_map, port_scan_threshold,
                   analysis, potential_scanners, ddos_targets>>

extract_packet_data(next) ==
    /\ pc = "extract_packet_data"
    /\ LET results == [i \in DOMAIN packets |-> process_packet(packets[i])]
       IN  df' = NotNone(results)
    /\ IF df' = <<>> THEN Raise(SystemExit("extract_packet_data")) ELSE Return(next)
    /\ UNCHANGED <<request, pcap, override_file, disk, ties, pool, csv, files, written, status, packets,
                   df_security, protocol_map, port_scan_threshold, analysis,
                   potential_scanners, ddos_targets>>

extract_security_data(next) ==
    /\ pc = "extract_security_data"
    /\ df_security' = NotNone([i \in DOMAIN packets |-> security_record(packets[i])])
    /\ Return(next)
    /\ UNCHANGED <<request, pcap, override_file, disk, ties, pool, csv, files, written, status, packets,
                   df, protocol_map, port_scan_threshold, analysis,
                   potential_scanners, ddos_targets>>

-----------------------------------------------------------------------------
(* NetworkAnalyzer: the protocol map.  A dict key is an int or a str, and   *)
(* the two never compare equal: IntKey(6) is the int 6, StrKey(6) the str   *)
(* "6".                                                                     *)

IntKey(n) == <<"int", n>>

StrKey(n) == <<"str", n>>

protocol_dict ==
    IntKey(0) :> "HOPOPT" @@ IntKey(1) :> "ICMP" @@ IntKey(2) :> "IGMP"
    @@ IntKey(6) :> "TCP" @@ IntKey(17) :> "UDP" @@ IntKey(19) :> "CHARGEN"
    @@ IntKey(37) :> "Time" @@ IntKey(89) :> "OSPF" @@ IntKey(118) :> "STP"
    @@ IntKey(120) :> "SMP" @@ IntKey(127) :> "Private" @@ IntKey(170) :> "EMFAS"
    @@ IntKey(240) :> "Experimental"

\* json.load of a JSON object: every key is a str.  obj gives the value under
\* the key that spells each number.
json_load(obj) == [k \in {StrKey(n) : n \in DOMAIN obj} |-> obj[k[2]]]

\* d.update(other)
update(d, other) == other @@ d

load_protocol_map(file) ==
    IF file.present THEN update(protocol_dict, json_load(file.obj)) ELSE protocol_dict

\* dict.get(number, f"Unknown({number})") with an int number.
protocol_name(number) ==
    IF IntKey(number) \in DOMAIN protocol_map
    THEN protocol_map[IntKey(number)]
    ELSE "Unknown(" \o ToString(number) \o ")"

-----------------------------------------------------------------------------
(* The state after NetworkAnalyzer(pcap_file, port_scan_threshold) is built *)
(* by a caller that uses the class directly, over a capture file that holds *)
(* the packets pk.                                                          *)

\* numpy's default sort kind, "quicksort", is not stable: which of two equal
\* elements argsort returns first is fixed by the build's algorithm (insertion
\* sort keeps the earlier one first, a sorting network need not).
ArgsortBuilds == {"earlier", "later"}

Constructed(pk, threshold, ovr, first) ==
    /\ request = "none"
    /\ pcap = pk
    /\ override_file = ovr
    /\ disk = "ok"
    /\ ties \in ArgsortBuilds
    /\ pool = NoPool
    /\ csv = <<>>
    /\ pc = first
    /\ files = {"pcap"}
    /\ written = {}
    /\ status = 0
    /\ raised = NoException
    /\ packets = None
    /\ df = None
    /\ df_security = None
    /\ protocol_map = load_protocol_map(ovr)
    /\ port_scan_threshold = threshold
    /\ analysis = <<>>
    /\ potential_scanners = {}
    /\ ddos_targets = {}

\* Every sequence over S of length 0..n.
SeqsUpTo(S, n) == UNION {[1..k -> S] : k \in 0..n}

\* No protocol_map.json in the working directory.
NoOverride == [present |-> FALSE, obj |-> <<>>]

-----------------------------------------------------------------------------
(* Feature extraction over addresses of every shape: read_pcap, then        *)
(* extract_security_data, then extract_packet_data.                         *)

MaxExtractLen == 2

Good == <<"1", ".", "2", ".", "3", ".", "4">>

ExtractAddrs ==
    { Good,
      <<"0", ".", "1", ".", "2", ".", "3">>,
      <<"0", ".", "0", ".", "0", ".", "0">>,
      <<"0", "0", ".", "1", ".", "2", ".", "3">>,
      <<"0", "1", ".", "2", ".", "3", ".", "4">>,
      <<"2", "4", "9", ".", "2", "5", "5", ".", "1", "9", "9", ".", "9", "9">>,
      <<"2", "5", "6", ".", "1", ".", "1", ".", "1">>,
      <<"1", ".", "2", ".", "3", ".", "2", "6", "0">>,
      <<"1", ".", "2", ".", "3">>,
      <<"1", ".", "2", ".", "3", ".", "4", ".", "5">>,
      <<"1", ".", ".", "3", ".", "4">>,
      <<"a", ".", "b", ".", "c", ".", "d">>,
      <<"1", ".", "2", ".", "3", ".", "4", "\n">>,
      <<"1", ".", "2", ".", "3", ".", "4", " ">>,
      <<>> }

IPPacket(src, dst) ==
    [ip |-> TRUE, src |-> src, dst |-> dst, proto |-> 17, len |-> 60, time |-> 0,
     tcp |-> FALSE, sport |-> 0, dport |-> 0, flags |-> <<>>]

\* A frame with no IP layer (ARP).
NonIPPacket ==
    [ip |-> FALSE, src |-> <<>>, dst |-> <<>>, proto |-> 0, len |-> 42, time |-> 0,
     tcp |-> FALSE, sport |-> 0, dport |-> 0, flags |-> <<>>]

ExtractPackets ==
    {IPPacket(a, Good) : a \in ExtractAddrs} \cup {IPPacket(Good, a) : a \in ExtractAddrs}
    \cup {IPPacket(a, a) : a \in {<<"0", ".", "1", ".", "2", ".", "3">>, <<"1", ".", "2", ".", "3">>}}
    \cup {NonIPPacket}

InitExtract ==
    \E pk \in SeqsUpTo(ExtractPackets, MaxExtractLen) :
        Constructed(pk, 100, NoOverride, "read_pcap")

NextExtract ==
    \/ read_pcap({"extract_security_data"})
    \/ extract_security_data({"extract_packet_data"})
    \/ extract_packet_data({"done"})

SpecExtract == InitExtract /\ [][NextExtract]_vars

-----------------------------------------------------------------------------
(* What a dotted quad is, stated without the pattern: four fields between   *)
(* three dots, each of one to three decimal digits and at most 255.         *)

RECURSIVE Split(_)
Split(s) ==
    IF ~contains(s, ".") THEN <<s>>
    ELSE LET i == CHOOSE k \in DOMAIN s : s[k] = "." /\ \A m \in 1..(k - 1) : s[m] # "."
         IN  <<SubSeq(s, 1, i - 1)>> \o Split(SubSeq(s, i + 1, Len(s)))

RECURSIVE Value(_)
Value(f) ==
    IF f = <<>> THEN 0 ELSE 10 * Value(SubSeq(f, 1, Len(f) - 1)) + DigitVal(f[Len(f)])

DottedQuad(s) ==
    LET f == Split(s)
    IN  /\ Len(f) = 4
        /\ \A k \in 1..4 :
              /\ Len(f[k]) \in 1..3
              /\ \A m \in DOMAIN f[k] : f[k][m] \in Digit
              /\ Value(f[k]) <= 255

BeginsZeroDot(s) == Len(s) >= 2 /\ s[1] = "0" /\ s[2] = "."

\* s without one final newline.
Chomp(s) == IF s # <<>> /\ s[Len(s)] = "\n" THEN SubSeq(s, 1, Len(s) - 1) ELSE s

Endpoints(records) == [i \in DOMAIN records |-> <<records[i].src_ip, records[i].dst_ip>>]

PacketEndpoints(pk) == [i \in DOMAIN pk |-> <<pk[i].src, pk[i].dst>>]

AcceptedSymmetric(p) ==
    /\ p.ip
    /\ DottedQuad(Chomp(p.src)) /\ ~BeginsZeroDot(p.src)
    /\ DottedQuad(Chomp(p.dst)) /\ ~BeginsZeroDot(p.dst)

AcceptedAsClaimed(p) ==
    /\ p.ip
    /\ DottedQuad(p.src) /\ ~BeginsZeroDot(p.src)
    /\ DottedQuad(p.dst)

ZeroFirst == <<"0", ".", "1", ".", "2", ".", "3">>

\* C1 (as amended): once both extractions have run, the general records and
\* the security records are exactly the packets that have an IP header and
\* whose source and destination are both dotted quads (one final newline
\* tolerated) that do not begin with "0.", in capture order; every other
\* packet is in neither.
C1_AcceptedIffBothAddressesPass ==
    pc = "done" =>
        /\ Endpoints(df) = PacketEndpoints(SelectSeq(pcap, AcceptedSymmetric))
        /\ Endpoints(df_security) = PacketEndpoints(SelectSeq(pcap, AcceptedSymmetric))

\* C1, witness: a packet from a valid source to 0.1.2.3 is dropped from both
\* outputs while a packet between valid addresses is kept in both.
C1_Witness ==
    /\ pc = "done"
    /\ \E i \in DOMAIN pcap : pcap[i] = IPPacket(Good, ZeroFirst)
    /\ Endpoints(df) = <<<<Good, Good>>>>
    /\ Endpoints(df_security) = <<<<Good, Good>>>>

\* C1 (as stated): only the source is tested for a leading "0.", so a packet
\* from a valid source to a dotted-quad destination such as 0.1.2.3 is accepted.
C1_OnlySourceTestedForZero ==
    pc = "done" =>
        /\ Endpoints(df) = PacketEndpoints(SelectSeq(pcap, AcceptedAsClaimed))
        /\ Endpoints(df_security) = PacketEndpoints(SelectSeq(pcap, AcceptedAsClaimed))

-----------------------------------------------------------------------------
(* NetworkAnalyzer: anomaly detection *)

\* The columns of pd.DataFrame(rows): a frame built from no rows has none.
Columns(frame) == IF frame = <<>> THEN {} ELSE DOMAIN frame[1]

\* groupby(key).size(): the number of rows per value of the key column, which
\* is given as a function from the rows' labels to their key.
groupby_size(key) ==
    [k \in {key[i] : i \in DOMAIN key} |-> Cardinality({i \in DOMAIN key : key[i] = k})]

IsSyn(r) == r.protocol = 6 /\ contains(r.tcp_flags, "S")

\* unique_ports_per_ip counted from the rows themselves, not from the
\* (src_ip, dst_port) groups.
unique_ports_per_ip_of_rows(syn_packets) ==
    groupby_size([i \in DOMAIN syn_packets |-> syn_packets[i].src_ip])

unique_ports_per_ip(syn_packets) ==
    LET port_scan_df ==
            groupby_size([i \in DOMAIN syn_packets |->
                             <<syn_packets[i].src_ip, syn_packets[i].dst_port>>])
    IN  groupby_size([k \in DOMAIN port_scan_df |-> k[1]])

scanners(frame, threshold) ==
    LET unique_ports == unique_ports_per_ip(SelectSeq(frame, IsSyn))
    IN  {[src_ip |-> s, unique_ports |-> unique_ports[s]] :
            s \in {x \in DOMAIN unique_ports : unique_ports[x] >= threshold}}

detect_port_scanning(next) ==
    /\ pc = "detect_port_scanning"
    /\ IF "protocol" \notin Columns(df_security)
       THEN /\ potential_scanners' = potential_scanners
            /\ Raise(Exception("KeyError", "detect_port_scanning"))
       ELSE /\ potential_scanners' = scanners(df_security, port_scan_threshold)
            /\ Return(next)
    /\ UNCHANGED <<request, pcap, override_file, disk, ties, pool, csv, files, written, status, packets,
                   df, df_security, protocol_map, port_scan_threshold, analysis,
                   ddos_targets>>

\* The timestamps count ticks of 1/TicksPerSecond second.
TicksPerSecond == 1000

\* detect_ddos's default rate_threshold, in packets per second.
rate_threshold == 1000

RECURSIVE Max(_)
Max(S) == LET x == CHOOSE y \in S : TRUE
          IN  IF S = {x} THEN x
              ELSE LET m == Max(S \ {x}) IN IF x > m THEN x ELSE m

RECURSIVE Min(_)
Min(S) == LET x == CHOOSE y \in S : TRUE
          IN  IF S = {x} THEN x
              ELSE LET m == Min(S \ {x}) IN IF x < m THEN x ELSE m

\* The comparison with >= in place of >.
RateReaches(count, time_span, threshold) ==
    count * TicksPerSecond >= threshold * time_span

\* packet_rate > rate_threshold, where packet_rate = count / time_span in
\* packets per second and time_span > 0 is in ticks.
RateExceeds(count, time_span, threshold) ==
    count * TicksPerSecond > threshold * time_span

\* detect_ddos with the time span taken between the last and the first row,
\* iloc[-1] - iloc[0], in place of max() - min().
targets_of_first_and_last(frame, threshold) ==
    LET time_span == frame[Len(frame)].time - frame[1].time
        size      == groupby_size([i \in DOMAIN frame |-> frame[i].dst_ip])
    IN  IF time_span = 0 THEN {}
        ELSE {d \in DOMAIN size : RateExceeds(size[d], time_span, threshold)}

targets(frame, threshold) ==
    LET times    == {frame[i].time : i \in DOMAIN frame}
        time_span == Max(times) - Min(times)
        size      == groupby_size([i \in DOMAIN frame |-> frame[i].dst_ip])
    IN  IF time_span = 0 THEN {}
        ELSE {d \in DOMAIN size : RateExceeds(size[d], time_span, threshold)}

detect_ddos(next) ==
    /\ pc = "detect_ddos"
    /\ IF "time" \notin Columns(df_security)
       THEN /\ ddos_targets' = ddos_targets
            /\ Raise(Exception("KeyError", "detect_ddos"))
       ELSE /\ ddos_targets' = targets(df_security, rate_threshold)
            /\ Return(next)
    /\ UNCHANGED <<request, pcap, override_file, disk, ties, pool, csv, files, written, status, packets,
                   df, df_security, protocol_map, port_scan_threshold, analysis,
                   potential_scanners>>

-----------------------------------------------------------------------------
(* The detectors called on the security records of a capture: read_pcap,   *)
(* extract_security_data, then detect_port_scanning or detect_ddos.        *)

MaxDetectLen == 3

MaxThreshold == 2

HostA == <<"1", ".", "1", ".", "1", ".", "1">>

HostB == <<"2", ".", "2", ".", "2", ".", "2">>

TCPPacket(src, dst, dport, flags, time) ==
    [ip |-> TRUE, src |-> src, dst |-> dst, proto |-> 6, len |-> 60, time |-> time,
     tcp |-> TRUE, sport |-> 40000, dport |-> dport, flags |-> flags]

UDPPacket(src, dst, time) ==
    [ip |-> TRUE, src |-> src, dst |-> dst, proto |-> 17, len |-> 90, time |-> time,
     tcp |-> FALSE, sport |-> 0, dport |-> 0, flags |-> <<>>]

DetectPackets ==
    { TCPPacket(HostA, HostB, 80, <<"S">>, 0),
      TCPPacket(HostA, HostB, 443, <<"S">>, 1),
      TCPPacket(HostA, HostB, 80, <<"S">>, 2),
      TCPPacket(HostA, HostB, 22, <<"P", "A">>, 0),
      TCPPacket(HostB, HostA, 80, <<"S", "A">>, 2),
      UDPPacket(HostB, HostA, 1),
      UDPPacket(ZeroFirst, HostB, 5),
      NonIPPacket }

InitDetect ==
    \E pk \in SeqsUpTo(DetectPackets, MaxDetectLen), threshold \in 1..MaxThreshold :
        Constructed(pk, threshold, NoOverride, "read_pcap")

NextDetect ==
    \/ read_pcap({"extract_security_data"})
    \/ extract_security_data({"detect_port_scanning", "detect_ddos"})
    \/ detect_port_scanning({"detect_port_scanning returned"})
    \/ detect_ddos({"detect_ddos returned"})

SpecDetect == InitDetect /\ [][NextDetect]_vars

\* The destination ports source s sent a TCP SYN to, read off the records.
SynPorts(s) ==
    {df_security[i].dst_port :
        i \in {j \in DOMAIN df_security :
                  /\ df_security[j].src_ip = s
                  /\ df_security[j].protocol = 6
                  /\ \E m \in DOMAIN df_security[j].tcp_flags :
                        df_security[j].tcp_flags[m] = "S"}}

Flagged == {row.src_ip : row \in potential_scanners}

\* C2: detect_port_scanning flags a source exactly when the number of distinct
\* destination ports among its TCP SYN security records is at least
\* port_scan_threshold; repeated SYNs to one port count once, and records that
\* are not TCP or carry no S flag count for nothing.
C2_FlaggedIffDistinctSynPorts ==
    pc = "detect_port_scanning returned" =>
        /\ Flagged \subseteq {df_security[i].src_ip : i \in DOMAIN df_security}
        /\ \A i \in DOMAIN df_security :
              LET s == df_security[i].src_ip
              IN  s \in Flagged <=> Cardinality(SynPorts(s)) >= port_scan_threshold
        /\ \A row \in potential_scanners :
              row.unique_ports = Cardinality(SynPorts(row.src_ip))

\* C2, witness: three SYNs from one source, two of them to the same port, make
\* two distinct ports, and the source is flagged at threshold 2.
C2_Witness ==
    /\ pc = "detect_port_scanning returned"
    /\ port_scan_threshold = 2
    /\ Len(df_security) = 3
    /\ \A i \in 1..3 : df_security[i].src_ip = HostA /\ df_security[i].tcp_flags = <<"S">>
    /\ \E i, j \in 1..3 : i # j /\ df_security[i].dst_port = df_security[j].dst_port
    /\ potential_scanners = {[src_ip |-> HostA, unique_ports |-> 2]}

\* The capture's time span, read off the records: latest minus earliest.
SpanOf(frame) ==
    CHOOSE d \in {frame[i].time - frame[j].time : i, j \in DOMAIN frame} :
        \A i, j \in DOMAIN frame : frame[i].time - frame[j].time <= d

\* C3: over security records that are not empty, detect_ddos returns nothing
\* (and raises nothing) when the capture's time span is zero, and otherwise
\* flags a destination exactly when its record count divided by the span of
\* the whole capture is strictly greater than rate_threshold.
C3_FlaggedIffRateAboveThreshold ==
    (/\ pc = "detect_ddos returned" \/ (pc = "done" /\ raised.site = "detect_ddos")
     /\ df_security # <<>>) =>
        /\ raised = NoException
        /\ IF \A i, j \in DOMAIN df_security : df_security[i].time = df_security[j].time
           THEN ddos_targets = {}
           ELSE \A i \in DOMAIN df_security :
                    LET d     == df_security[i].dst_ip
                        count == Cardinality({k \in DOMAIN df_security :
                                                 df_security[k].dst_ip = d})
                    IN  /\ ddos_targets \subseteq
                              {df_security[k].dst_ip : k \in DOMAIN df_security}
                        /\ d \in ddos_targets <=>
                              count * TicksPerSecond > rate_threshold * SpanOf(df_security)

\* C3, witness: three records for one destination within 2 ms are 1500
\* packets per second, and the destination is flagged.
C3_Witness ==
    /\ pc = "detect_ddos returned"
    /\ Len(df_security) = 3
    /\ SpanOf(df_security) = 2
    /\ \A i \in 1..3 : df_security[i].dst_ip = HostB
    /\ ddos_targets = {HostB}

\* C5: when security extraction yields no record, a detector that has been
\* called has not raised, and has returned an empty set.
C5_EmptySecurityRecordsDoNotRaise ==
    (/\ pc \in {"done", "detect_port_scanning returned", "detect_ddos returned"}
     /\ packets # <<>>
     /\ df_security = <<>>) =>
        /\ raised = NoException
        /\ potential_scanners = {}
        /\ ddos_targets = {}

-----------------------------------------------------------------------------
(* NetworkAnalyzer: aggregation.  A table whose row order no caller reads   *)
(* is the set of its rows; the host-pair table, which is sorted, is a       *)
(* sequence.                                                                *)

\* count / total * 100
Percent(count, total) == [num |-> count * 100, den |-> total]

RECURSIVE SumOf(_)
SumOf(s) == IF s = <<>> THEN 0 ELSE Head(s) + SumOf(Tail(s))

\* The order of groupby's sorted keys (src_ip, dst_ip): tuples of str.
PairLess(p, q) == StrLess(p[1], q[1]) \/ (p[1] = q[1] /\ StrLess(p[2], q[2]))

\* groupby(["src_ip", "dst_ip"]).size(): one entry per pair, in key order.
RECURSIVE sorted_groups(_, _)
sorted_groups(size, keys) ==
    IF keys = {} THEN <<>>
    ELSE LET k == CHOOSE x \in keys : \A y \in keys \ {x} : PairLess(x, y)
         IN  <<[src_ip |-> k[1], dst_ip |-> k[2], size |-> size[k]]>>
             \o sorted_groups(size, keys \ {k})

\* s[::-1]
RECURSIVE Reverse(_)
Reverse(s) == IF s = <<>> THEN <<>> ELSE Append(Reverse(Tail(s)), Head(s))

\* The sorted s with x, which followed its entries, put in: behind every
\* smaller entry, and behind or before the equal ones as the build has it.
RECURSIVE Insert(_, _)
Insert(x, s) ==
    IF s = <<>> THEN <<x>>
    ELSE IF \/ s[Len(s)].size < x.size
            \/ s[Len(s)].size = x.size /\ ties = "earlier"
         THEN Append(s, x)
         ELSE Append(Insert(x, SubSeq(s, 1, Len(s) - 1)), s[Len(s)])

\* argsort, ascending.
RECURSIVE argsort(_)
argsort(s) ==
    IF s = <<>> THEN <<>> ELSE Insert(s[Len(s)], argsort(SubSeq(s, 1, Len(s) - 1)))

\* sort_values without ascending=False.
sort_values_ascending(s) == argsort(s)

\* sort_values(ascending=False): nargsort reverses, sorts ascending, reverses.
sort_values_descending(s) == Reverse(argsort(Reverse(s)))

\* The sum of f over the keys S.
RECURSIVE SumOver(_, _)
SumOver(f, S) ==
    IF S = {} THEN 0
    ELSE LET x == CHOOSE y \in S : TRUE IN f[x] + SumOver(f, S \ {x})

\* value_counts(normalize=True) * 100 with the number of distinct values for
\* the number of rows.
share_of_values(frequency, k) == Percent(frequency[k], Cardinality(DOMAIN frequency))

\* value_counts(normalize=True) * 100
share_of_rows(frequency, k) == Percent(frequency[k], SumOver(frequency, DOMAIN frequency))

\* Count / Count.sum() * 100: the share of the grand total.
share_of_all(size, k) == Percent(size[k], SumOver(size, DOMAIN size))

\* Count / groupby(["Source IP", "Destination IP"])["Count"].transform("sum") * 100
share_of_pair(size, k) ==
    Percent(size[k], SumOver(size, {j \in DOMAIN size : j[1] = k[1] /\ j[2] = k[2]}))

\* What analyze_packet_data computes from self.df, once its protocol column
\* holds the names, and returns.
aggregates(frame) ==
    LET protocol_frequency == groupby_size([i \in DOMAIN frame |-> frame[i].protocol])
        pair_size ==
            groupby_size([i \in DOMAIN frame |-> <<frame[i].src_ip, frame[i].dst_ip>>])
        ip_communication ==
            sort_values_descending(sorted_groups(pair_size, DOMAIN pair_size))
        total == SumOf([i \in DOMAIN ip_communication |-> ip_communication[i].size])
        triple_size ==
            groupby_size([i \in DOMAIN frame |->
                             <<frame[i].src_ip, frame[i].dst_ip, frame[i].protocol>>])
        flow_size ==
            groupby_size([i \in DOMAIN frame |->
                             <<frame[i].src_ip, frame[i].dst_ip, frame[i].src_port,
                               frame[i].dst_port, frame[i].protocol>>])
    IN       [total_bandwidth |-> SumOf([i \in DOMAIN frame |-> frame[i].size]),
              protocol_counts_df |->
                  {[Protocol |-> p, Count |-> protocol_frequency[p],
                    Percentage |-> share_of_rows(protocol_frequency, p)] :
                      p \in DOMAIN protocol_frequency},
              ip_communication_table |->
                  [i \in DOMAIN ip_communication |->
                      [Source_IP |-> ip_communication[i].src_ip,
                       Destination_IP |-> ip_communication[i].dst_ip,
                       Count |-> ip_communication[i].size,
                       Percentage |-> Percent(ip_communication[i].size, total)]],
              ip_communication_protocols |->
                  {[Source_IP |-> k[1], Destination_IP |-> k[2], Protocol |-> k[3],
                    Count |-> triple_size[k],
                    Percentage |-> share_of_pair(triple_size, k)] :
                      k \in DOMAIN triple_size},
              flow_counts |->
                  {[src_ip |-> k[1], dst_ip |-> k[2], src_port |-> k[3],
                    dst_port |-> k[4], protocol |-> k[5], count |-> flow_size[k]] :
                      k \in DOMAIN flow_size}]

analyze_packet_data(next) ==
    /\ pc = "analyze_packet_data"
    /\ df' = [i \in DOMAIN df |-> [df[i] EXCEPT !.protocol = protocol_name(@)]]
    /\ analysis' = aggregates(df')
    /\ Return(next)
    /\ UNCHANGED <<request, pcap, override_file, disk, ties, pool, csv, files, written, status, packets,
                   df_security, protocol_map, port_scan_threshold,
                   potential_scanners, ddos_targets>>

-----------------------------------------------------------------------------
(* Aggregation over the general records of a capture: read_pcap,           *)
(* extract_packet_data, then analyze_packet_data.                          *)

MaxAggregateLen == 3

HostC == <<"1", "0", ".", "0", ".", "0", ".", "1">>

IPProtoPacket(src, dst, proto) ==
    [ip |-> TRUE, src |-> src, dst |-> dst, proto |-> proto, len |-> 70, time |-> 3,
     tcp |-> FALSE, sport |-> 0, dport |-> 0, flags |-> <<>>]

AggregatePackets ==
    { TCPPacket(HostA, HostB, 80, <<"S">>, 0),
      UDPPacket(HostA, HostB, 1),
      UDPPacket(HostB, HostA, 1),
      IPProtoPacket(HostB, HostA, 1),
      TCPPacket(HostC, HostA, 443, <<"P", "A">>, 2),
      IPProtoPacket(HostA, HostC, 99),
      NonIPPacket }

OverrideFiles ==
    { NoOverride,
      [present |-> TRUE, obj |-> (6 :> "Transmission")],
      [present |-> TRUE, obj |-> (99 :> "Custom")] }

InitAggregate ==
    \E pk \in SeqsUpTo(AggregatePackets, MaxAggregateLen), ovr \in OverrideFiles :
        Constructed(pk, 100, ovr, "read_pcap")

NextAggregate ==
    \/ read_pcap({"extract_packet_data"})
    \/ extract_packet_data({"analyze_packet_data"})
    \/ analyze_packet_data({"analyze_packet_data returned"})

SpecAggregate == InitAggregate /\ [][NextAggregate]_vars

Analyzed == pc = "analyze_packet_data returned"

\* The name the protocol number N is to resolve to: the override's when the
\* override file defines N, else the default table's, else "Unknown(N)".
ExpectedName(N) ==
    IF override_file.present /\ N \in DOMAIN override_file.obj
    THEN override_file.obj[N]
    ELSE IF IntKey(N) \in DOMAIN protocol_dict
         THEN protocol_dict[IntKey(N)]
         ELSE "Unknown(" \o ToString(N) \o ")"

\* C6: every general record's protocol number has been resolved to the
\* override table's name where the override file defines the number, to the
\* default table's name where only that table does, and to "Unknown(N)" where
\* neither does; without an override file the defaults are used.
C6_NamesFollowOverridesThenDefaults ==
    Analyzed =>
        LET numbers == NotNone([i \in DOMAIN packets |-> process_packet(packets[i])])
        IN  \A i \in DOMAIN df : df[i].protocol = ExpectedName(numbers[i].protocol)

\* p is a / b x 100.
IsShare(p, a, b) == p.num * b = a * 100 * p.den

\* The exact sum of the rows' percentages.
RECURSIVE PercentageSum(_)
PercentageSum(rows) ==
    IF rows = {} THEN [num |-> 0, den |-> 1]
    ELSE LET r == CHOOSE x \in rows : TRUE
             rest == PercentageSum(rows \ {r})
         IN  [num |-> r.Percentage.num * rest.den + rest.num * r.Percentage.den,
              den |-> r.Percentage.den * rest.den]

RECURSIVE CountSum(_)
CountSum(rows) ==
    IF rows = {} THEN 0
    ELSE LET r == CHOOSE x \in rows : TRUE IN r.Count + CountSum(rows \ {r})

\* C7: the protocol distribution has one row per protocol name present; its
\* Count is the number of general records of that name and its Percentage is
\* Count / total records x 100; the Counts sum to the number of general
\* records and the Percentages to 100.
C7_ProtocolDistributionCountsAndShares ==
    Analyzed =>
        LET table == analysis.protocol_counts_df
            names == {df[i].protocol : i \in DOMAIN df}
        IN  /\ {r.Protocol : r \in table} = names
            /\ Cardinality(table) = Cardinality(names)
            /\ \A r \in table :
                 /\ r.Count = Cardinality({i \in DOMAIN df : df[i].protocol = r.Protocol})
                 /\ IsShare(r.Percentage, r.Count, Len(df))
            /\ CountSum(table) = Len(df)
            /\ IsShare(PercentageSum(table), 1, 1)

\* C7's case: two names, one of them on more than one record.
C7_Witness ==
    /\ Analyzed
    /\ Cardinality(analysis.protocol_counts_df) >= 2
    /\ \E r \in analysis.protocol_counts_df : r.Count >= 2

SamePair(r, q) == r.Source_IP = q.Source_IP /\ r.Destination_IP = q.Destination_IP

\* C8: in the per-protocol host-pair table, each row's Count is the number of
\* general records of its (source, destination, protocol) and its Percentage
\* is Count / the number of records of its (source, destination) x 100, so the
\* Percentages of every pair's rows sum to 100.
C8_SharesAreOfThePairTotal ==
    Analyzed =>
        LET table == analysis.ip_communication_protocols
            OfPair(r) == {i \in DOMAIN df : /\ df[i].src_ip = r.Source_IP
                                            /\ df[i].dst_ip = r.Destination_IP}
        IN  /\ \A i \in DOMAIN df : \E r \in table :
                 i \in OfPair(r) /\ df[i].protocol = r.Protocol
            /\ \A r \in table :
                 /\ r.Count = Cardinality({i \in OfPair(r) : df[i].protocol = r.Protocol})
                 /\ IsShare(r.Percentage, r.Count, Cardinality(OfPair(r)))
                 /\ IsShare(PercentageSum({q \in table : SamePair(q, r)}), 1, 1)

\* C8's case: a pair with two protocols, beside another pair.
C8_Witness ==
    /\ Analyzed
    /\ \E r, q, o \in analysis.ip_communication_protocols :
         SamePair(r, q) /\ r.Protocol # q.Protocol /\ ~SamePair(r, o)

\* C9: the host-pair table has exactly one row per distinct (source,
\* destination) of the general records, with that pair's number of records as
\* Count, in non-increasing order of Count; rows of equal Count are in the
\* order of their addresses, ascending or descending as the build's sort has
\* it, which the input alone decides.
C9_OneRowPerPairByDescendingCount ==
    Analyzed =>
        LET table == analysis.ip_communication_table
            pairs == {<<df[i].src_ip, df[i].dst_ip>> : i \in DOMAIN df}
            Key(i) == <<table[i].Source_IP, table[i].Destination_IP>>
        IN  /\ Len(table) = Cardinality(pairs)
            /\ {Key(i) : i \in DOMAIN table} = pairs
            /\ \A i \in DOMAIN table :
                 table[i].Count =
                    Cardinality({j \in DOMAIN df : <<df[j].src_ip, df[j].dst_ip>> = Key(i)})
            /\ \A i \in 1..(Len(table) - 1) :
                 /\ table[i].Count >= table[i + 1].Count
                 /\ table[i].Count = table[i + 1].Count =>
                      (PairLess(Key(i), Key(i + 1)) <=> ties = "earlier")

\* C9's case: the pair that is first by address has the smaller count, and
\* comes out second.
C9_Witness ==
    /\ Analyzed
    /\ Len(analysis.ip_communication_table) >= 2
    /\ LET table == analysis.ip_communication_table
       IN  /\ table[1].Count > table[2].Count
           /\ PairLess(<<table[2].Source_IP, table[2].Destination_IP>>,
                       <<table[1].Source_IP, table[1].Destination_IP>>)

-----------------------------------------------------------------------------
(* NetworkAnalyzer: persistence.  A write the file system refuses raises    *)
(* inside the method's own try, whose except exits; the refused write may   *)
(* or may not have created the file.                                        *)

save_results(next) ==
    /\ pc = "save_results"
    /\ IF disk = "csv"
       THEN /\ files' \in {files, files \cup {"csv"}}
            /\ written' = written \cup (files' \ files)
            /\ Raise(SystemExit("save_results"))
       ELSE /\ files' = files \cup {"csv"}
            /\ written' = written \cup {"csv"}
            /\ Return(next)
    /\ csv' = IF disk = "csv" THEN <<>> ELSE df
    /\ UNCHANGED <<request, pcap, override_file, disk, ties, pool, status, packets, df,
                   df_security, protocol_map, port_scan_threshold, analysis,
                   potential_scanners, ddos_targets>>

generate_visualizations(next) ==
    /\ pc = "generate_visualizations"
    /\ IF disk = "viz"
       THEN /\ files' \in {files, files \cup {"viz"}}
            /\ written' = written \cup (files' \ files)
            /\ Raise(SystemExit("generate_visualizations"))
       ELSE /\ files' = files \cup {"viz"}
            /\ written' = written \cup {"viz"}
            /\ Return(next)
    /\ UNCHANGED <<request, pcap, override_file, disk, ties, pool, csv, status, packets, df,
                   df_security, protocol_map, port_scan_threshold, analysis,
                   potential_scanners, ddos_targets>>

-----------------------------------------------------------------------------
(* The /analyze handler, analyze_pcap, and the analyzer it builds and runs. *)

\* NetworkAnalyzer(pcap_file, output_file, viz_output): __init__.
NetworkAnalyzer ==
    /\ pc = "NetworkAnalyzer"
    /\ port_scan_threshold' = 100
    /\ packets' = None
    /\ df' = None
    /\ df_security' = None
    /\ protocol_map' = load_protocol_map(override_file)
    /\ pc' = "read_pcap"
    /\ UNCHANGED <<request, pcap, override_file, disk, ties, pool, csv, files, written, status,
                   raised, analysis, potential_scanners, ddos_targets>>

\* The request's checks, before any file is named.
analyze_pcap ==
    /\ pc = "analyze_pcap"
    /\ IF request = "upload"
       THEN status' = status /\ pc' = "file.save"
       ELSE status' = 400 /\ pc' = "finished"
    /\ UNCHANGED <<request, pcap, override_file, disk, ties, pool, csv, files, written, raised,
                   packets, df, df_security, protocol_map, port_scan_threshold,
                   analysis, potential_scanners, ddos_targets>>

\* file.save(filepath), the first statement of the try.
file_save ==
    /\ pc = "file.save"
    /\ IF disk = "pcap"
       THEN /\ files' \in {files, files \cup {"pcap"}}
            /\ written' = written \cup (files' \ files)
            /\ Raise(Exception("OSError", "file.save"))
       ELSE /\ files' = files \cup {"pcap"}
            /\ written' = written \cup {"pcap"}
            /\ raised' = raised
            /\ pc' = "NetworkAnalyzer"
    /\ UNCHANGED <<request, pcap, override_file, disk, ties, pool, csv, status, packets, df,
                   df_security, protocol_map, port_scan_threshold, analysis,
                   potential_scanners, ddos_targets>>

\* Where run() returns to: the handler's try, or the caller that used the class.
run_returns == IF request = "none" THEN {"done"} ELSE {"run returned"}

\* The rest of the try: the CSV is read back and the response is built.
respond ==
    /\ pc = "run returned"
    /\ IF "csv" \notin files
       THEN status' = status /\ Raise(Exception("FileNotFoundError", "analyze_pcap"))
       ELSE status' = 200 /\ raised' = raised /\ pc' = "handler_finally"
    /\ UNCHANGED <<request, pcap, override_file, disk, ties, pool, csv, files, written, packets,
                   df, df_security, protocol_map, port_scan_threshold, analysis,
                   potential_scanners, ddos_targets>>

\* except Exception as e: the exception is handled and answered with 500.
handler_except ==
    /\ pc = "handler_except"
    /\ status' = 500
    /\ raised' = NoException
    /\ pc' = "handler_finally"
    /\ UNCHANGED <<request, pcap, override_file, disk, ties, pool, csv, files, written, packets,
                   df, df_security, protocol_map, port_scan_threshold, analysis,
                   potential_scanners, ddos_targets>>

\* finally: every one of the three paths that exists is removed.
handler_finally ==
    /\ pc = "handler_finally"
    /\ files' = files \ {"pcap", "csv", "viz"}
    /\ pc' = "finished"
    /\ UNCHANGED <<request, pcap, override_file, disk, ties, pool, csv, written, status, raised,
                   packets, df, df_security, protocol_map, port_scan_threshold,
                   analysis, potential_scanners, ddos_targets>>

\* run(): the pipeline's calls in order.
run ==
    \/ read_pcap({"extract_packet_data"})
    \/ extract_packet_data({"extract_security_data"})
    \/ extract_security_data({"analyze_packet_data"})
    \/ analyze_packet_data({"detect_port_scanning"})
    \/ detect_port_scanning({"detect_ddos"})
    \/ detect_ddos({"save_results"})
    \/ save_results({"generate_visualizations"})
    \/ generate_visualizations(run_returns)

-----------------------------------------------------------------------------
(* One request served by the handler, or one run() by a caller that uses    *)
(* the class directly ("none"), over a capture of a few packets.            *)

MaxRunLen == 2

Requests == {"no pcap_file part", "no filename", "extension not allowed", "upload"}

\* The write the file system refuses: none, or that of one of the three files.
Faults == {"ok", "pcap", "csv", "viz"}

RunPackets ==
    { TCPPacket(HostA, HostB, 80, <<"S">>, 0),
      UDPPacket(HostB, HostA, 1),
      IPPacket(<<"0", ".", "1", ".", "2", ".", "3">>, HostA),
      NonIPPacket }

Init ==
    /\ request \in Requests \cup {"none"}
    /\ pcap \in SeqsUpTo(RunPackets, MaxRunLen)
    /\ override_file \in OverrideFiles
    /\ disk \in Faults
    /\ ties \in ArgsortBuilds
    /\ pool = NoPool
    /\ csv = <<>>
    /\ IF request = "none"
       THEN pc = "NetworkAnalyzer" /\ files \in {{}, {"pcap"}}
       ELSE pc = "analyze_pcap" /\ files = {}
    /\ written = {}
    /\ status = 0
    /\ raised = NoException
    /\ packets = None
    /\ df = None
    /\ df_security = None
    /\ protocol_map = <<>>
    /\ port_scan_threshold = 0
    /\ analysis = <<>>
    /\ potential_scanners = {}
    /\ ddos_targets = {}

Next ==
    \/ analyze_pcap
    \/ file_save
    \/ NetworkAnalyzer
    \/ run
    \/ respond
    \/ handler_except
    \/ handler_finally

Spec == Init /\ [][Next]_vars

\* The pipeline-level conditions: no packets, no analyzable traffic, a result
\* that cannot be written.
AbortSites == {"read_pcap", "extract_packet_data", "save_results", "generate_visualizations"}

\* The failure each of them is to surface as.
Surfaced(site) ==
    CASE site = "read_pcap" -> "SourceUnavailable"
      [] site = "extract_packet_data" -> "NoAnalyzableTraffic"
      [] site \in {"save_results", "generate_visualizations"} -> "PersistenceFailure"

\* The failures that what run()'s caller holds is compatible with.
Told(e) ==
    {Surfaced(site) : site \in {s \in AbortSites : Observed(SystemExit(s)) = Observed(e)}}

RunAborted ==
    /\ pc \in {"done", "handler_finally"}
    /\ raised.type = "SystemExit"
    /\ raised.site \in AbortSites

\* C4: a run over an empty packet sequence ends in the failure of an
\* unavailable source, a run over packets of which none is a valid IP packet
\* in the failure of no analyzable traffic, and what the caller of run()
\* holds when a run has failed tells it which of the failures it was.
C4_FailuresAreToldApart ==
    RunAborted =>
        /\ packets = <<>> => Surfaced(raised.site) = "SourceUnavailable"
        /\ packets # <<>> /\ df = <<>> => Surfaced(raised.site) = "NoAnalyzableTraffic"
        /\ Told(raised) = {Surfaced(raised.site)}

Finished == request # "none" /\ pc = "finished"

-----------------------------------------------------------------------------
(* extract_packet_data, step by step: pool.imap queues one task per packet  *)
(* in order, each worker of the pool takes the task at the head of the      *)
(* queue and hands its result back whenever it is done, and the imap        *)
(* iterator, which list() drains, yields the results by task index.         *)

MaxWorkers == 2

Workers == 1..MaxWorkers

RECURSIVE Indexes(_)
Indexes(n) == IF n = 0 THEN <<>> ELSE Append(Indexes(n - 1), n)

\* Every result that has arrived and is next in line moves to the items.
RECURSIVE drain(_)
drain(it) ==
    IF \E u \in it.unsorted : u[1] = Len(it.items) + 1
    THEN LET u == CHOOSE x \in it.unsorted : x[1] = Len(it.items) + 1
         IN  drain([it EXCEPT !.items = Append(@, u[2]), !.unsorted = @ \ {u}])
    ELSE it

\* The iterator of imap_unordered: a result is yielded as it arrives.
imap_unordered_set(it, i, obj) == [it EXCEPT !.items = Append(@, obj)]

\* The iterator of imap: the result of task i is yielded when it is the next
\* index, with the later ones that waited for it; else it waits.
imap_set(it, i, obj) ==
    IF i = Len(it.items) + 1
    THEN drain([it EXCEPT !.items = Append(@, obj)])
    ELSE [it EXCEPT !.unsorted = @ \cup {<<i, obj>>}]

pool_imap ==
    /\ pc = "extract_packet_data"
    /\ pool' = [NoPool EXCEPT !.taskqueue = Indexes(Len(packets))]
    /\ pc' = "list(pool.imap)"
    /\ UNCHANGED <<request, pcap, override_file, disk, ties, csv, files, written, status,
                   raised, packets, df, df_security, protocol_map, port_scan_threshold,
                   analysis, potential_scanners, ddos_targets>>

worker_get(w) ==
    /\ pc = "list(pool.imap)"
    /\ pool.taskqueue # <<>>
    /\ \A t \in pool.working : t[1] # w
    /\ pool' = [pool EXCEPT !.taskqueue = Tail(@),
                            !.working = @ \cup {<<w, Head(pool.taskqueue)>>}]
    /\ UNCHANGED <<request, pcap, override_file, disk, ties, csv, pc, files, written,
                   status, raised, packets, df, df_security, protocol_map,
                   port_scan_threshold, analysis, potential_scanners, ddos_targets>>

worker_put(w) ==
    /\ pc = "list(pool.imap)"
    /\ \E t \in pool.working :
         /\ t[1] = w
         /\ pool' = imap_set([pool EXCEPT !.working = @ \ {t},
                                          !.arrived = Append(@, t[2])],
                             t[2], process_packet(packets[t[2]]))
    /\ UNCHANGED <<request, pcap, override_file, disk, ties, csv, pc, files, written,
                   status, raised, packets, df, df_security, protocol_map,
                   port_scan_threshold, analysis, potential_scanners, ddos_targets>>

\* list(...) has every result; the DataFrame is built and tested.
list_results(next) ==
    /\ pc = "list(pool.imap)"
    /\ Len(pool.items) = Len(packets)
    /\ df' = NotNone(pool.items)
    /\ pool' = [NoPool EXCEPT !.arrived = pool.arrived]
    /\ IF df' = <<>> THEN Raise(SystemExit("extract_packet_data")) ELSE Return(next)
    /\ UNCHANGED <<request, pcap, override_file, disk, ties, csv, files, written, status,
                   packets, df_security, protocol_map, port_scan_threshold, analysis,
                   potential_scanners, ddos_targets>>

MaxPoolLen == 3

PoolPackets ==
    { TCPPacket(HostA, HostB, 80, <<"S">>, 0),
      TCPPacket(HostB, HostA, 81, <<"A">>, 1),
      UDPPacket(HostA, HostC, 2),
      NonIPPacket }

InitPool ==
    \E pk \in SeqsUpTo(PoolPackets, MaxPoolLen) :
        Constructed(pk, 100, NoOverride, "read_pcap")

NextPool ==
    \/ read_pcap({"extract_packet_data"})
    \/ pool_imap
    \/ \E w \in Workers : worker_get(w)
    \/ \E w \in Workers : worker_put(w)
    \/ list_results({"analyze_packet_data"})
    \/ analyze_packet_data({"save_results"})
    \/ save_results({"done"})

SpecPool == InitPool /\ [][NextPool]_vars

\* What tells a record's packet: addresses, time and destination port.
RowId(r) == <<r.src_ip, r.dst_ip, r.time, r.dst_port>>

PacketId(p) == <<p.src, p.dst, p.time, IF p.tcp THEN p.dport ELSE 0>>

IsAccepted(p) == p.ip /\ is_valid_ip(p.src) /\ is_valid_ip(p.dst)

AcceptedIds == LET a == SelectSeq(packets, IsAccepted) IN [i \in DOMAIN a |-> PacketId(a[i])]

RowIds(frame) == [i \in DOMAIN frame |-> RowId(frame[i])]

\* C11: whatever the interleaving of the workers, once the results are
\* collected the general records are the accepted packets in the order of the
\* packet sequence, none lost and none twice, and so are the rows of the CSV
\* once it is written.
C11_RecordsKeepPacketOrder ==
    /\ pc \in {"analyze_packet_data", "save_results", "done"} /\ packets # <<>> =>
          RowIds(df) = AcceptedIds
    /\ "csv" \in files => RowIds(csv) = AcceptedIds

\* C11's case: the second packet's result arrived before the first's, and the
\* CSV has the two records in packet order.
C11_Witness ==
    /\ pc = "done"
    /\ "csv" \in files
    /\ pool.arrived = <<2, 1>>
    /\ Len(csv) = 2
    /\ RowIds(csv) = AcceptedIds
    /\ csv[1].time < csv[2].time

-----------------------------------------------------------------------------
(* run() over packets of which none is accepted                             *)

\* The packets have been read and none of them is a valid IP packet.
NoValidRecord == packets # <<>> /\ \A i \in DOMAIN packets : ~IsAccepted(packets[i])

\* C12: when no packet yields a general record, run() is at
\* extract_packet_data or has left it by sys.exit and ended: it is at no later
\* step of the pipeline, nothing has been aggregated or detected, and neither
\* the CSV nor the visualization file has been written.
C12_RunAbortsAtExtraction ==
    NoValidRecord /\ pc # "extract_packet_data" =>
        /\ pc \in {"done", "handler_finally", "finished"}
        /\ raised = SystemExit("extract_packet_data")
        /\ analysis = <<>>
        /\ potential_scanners = {}
        /\ ddos_targets = {}
        /\ written \cap {"csv", "viz"} = {}
        /\ files \cap {"csv", "viz"} = {}

\* C12's case: an upload without a valid IP packet, after the handler.
C12_Witness ==
    /\ NoValidRecord
    /\ request = "upload"
    /\ pc = "finished"
    /\ raised = SystemExit("extract_packet_data")
    /\ written = {"pcap"}

-----------------------------------------------------------------------------
(* The same packets in another order: extraction, aggregation and both      *)
(* detectors, in the order run() calls them, over a capture whose packets   *)
(* come in every order.                                                     *)

MaxPermuteLen == 3

PermutePackets ==
    { TCPPacket(HostA, HostB, 80, <<"S">>, 0),
      TCPPacket(HostA, HostB, 443, <<"S">>, 1),
      TCPPacket(HostB, HostA, 80, <<"S", "A">>, 2),
      UDPPacket(HostA, HostB, 1),
      NonIPPacket }

InitPermute ==
    \E pk \in SeqsUpTo(PermutePackets, MaxPermuteLen), threshold \in 1..MaxThreshold :
        Constructed(pk, threshold, NoOverride, "read_pcap")

NextPermute ==
    \/ read_pcap({"extract_packet_data"})
    \/ extract_packet_data({"extract_security_data"})
    \/ extract_security_data({"analyze_packet_data"})
    \/ analyze_packet_data({"detect_port_scanning"})
    \/ detect_port_scanning({"detect_ddos"})
    \/ detect_ddos({"done"})

SpecPermute == InitPermute /\ [][NextPermute]_vars

\* The orders n packets can come in.
Orders(n) == {f \in [1..n -> 1..n] : \A i, j \in 1..n : f[i] = f[j] => i = j}

\* The packets pk in the order f.
Permuted(pk, f) == [i \in DOMAIN pk |-> pk[f[i]]]

\* The general records of the packets pk as analyze_packet_data leaves them.
GeneralRecords(pk) ==
    LET records == NotNone([i \in DOMAIN pk |-> process_packet(pk[i])])
    IN  [i \in DOMAIN records |-> [records[i] EXCEPT !.protocol = protocol_name(@)]]

\* The security records of the packets pk.
SecurityRecords(pk) == NotNone([i \in DOMAIN pk |-> security_record(pk[i])])

\* The rows of a table that is kept in some order.
RowsOf(table) == {table[i] : i \in DOMAIN table}

\* The aggregation tables of a and b hold the same rows.
SameTables(a, b) ==
    /\ a.protocol_counts_df = b.protocol_counts_df
    /\ RowsOf(a.ip_communication_table) = RowsOf(b.ip_communication_table)
    /\ Len(a.ip_communication_table) = Len(b.ip_communication_table)
    /\ a.ip_communication_protocols = b.ip_communication_protocols
    /\ a.flow_counts = b.flow_counts

\* The 5-tuple a row of flow_counts is about.
FlowKey(r) == <<r.src_ip, r.dst_ip, r.src_port, r.dst_port, r.protocol>>

\* The sum of the count column of the rows.
RECURSIVE FlowSum(_)
FlowSum(rows) ==
    IF rows = {} THEN 0
    ELSE LET r == CHOOSE x \in rows : TRUE IN r.count + FlowSum(rows \ {r})

\* run() has gone through aggregation and both detectors.
Detected == pc = "done" /\ raised = NoException

\* C13: once a capture is aggregated and both detectors have run, the same
\* packets in any other order give the same rows in the protocol, host-pair,
\* per-protocol host-pair and flow tables, the same flagged scan sources and
\* the same flagged flood destinations; and the flow table has one row per
\* 5-tuple, its counts adding up to the number of general records.
C13_ResultsDoNotDependOnPacketOrder ==
    Detected =>
        /\ \A f \in Orders(Len(packets)) :
              /\ SameTables(aggregates(GeneralRecords(Permuted(packets, f))), analysis)
              /\ scanners(SecurityRecords(Permuted(packets, f)), port_scan_threshold)
                     = potential_scanners
              /\ targets(SecurityRecords(Permuted(packets, f)), rate_threshold)
                     = ddos_targets
        /\ \A r, q \in analysis.flow_counts : FlowKey(r) = FlowKey(q) => r = q
        /\ FlowSum(analysis.flow_counts) = Len(df)

\* C13's case: three packets not in time order, two of them of one flow, with
\* a scan source and a flood destination flagged.
C13_Witness ==
    /\ Detected
    /\ Len(df) = 3
    /\ df[1].time > df[2].time
    /\ Cardinality(analysis.flow_counts) = 2
    /\ potential_scanners # {}
    /\ ddos_targets # {}

-----------------------------------------------------------------------------
(* The two extractions of run() side by side                                *)

\* run() is inside or past extract_security_data's successor: the general
\* records exist and extract_security_data is not the step about to run.
SecurityExtracted == df # <<>> /\ pc # "extract_security_data"

\* C14: in run() and in the handler that calls it, each packet gives a
\* security record exactly when it gives a general record; once both
\* extractions are done the security records are, one per general record and
\* in the same order, those of the accepted packets; and a detector is never
\* reached with no security record.
C14_SecurityRecordsMatchGeneralRecords ==
    /\ \A i \in DOMAIN packets :
          security_record(packets[i]) = <<>> <=> process_packet(packets[i]) = None
    /\ SecurityExtracted =>
          /\ df_security # <<>>
          /\ Len(df_security) = Len(df)
          /\ RowIds(df_security) = RowIds(df)
          /\ RowIds(df_security) = AcceptedIds
    /\ pc \in {"detect_port_scanning", "detect_ddos"} => df_security # <<>>

\* C14's case: a detector is reached in run() over a capture of which one
\* packet was dropped and one kept by both extractions.
C14_Witness ==
    /\ pc = "detect_ddos"
    /\ Len(packets) = 2
    /\ Len(df) = 1
    /\ Len(df_security) = 1
    /\ ~IsAccepted(packets[1])

=============================================================================
